---------------------------- MODULE Spec2Model ----------------------------
(***************************************************************************)
(* bevy_vach: VachAssetIo, the bevy_asset::AssetIo implementation over a   *)
(* vach Archive (src/src/lib.rs).                                          *)
(*                                                                         *)
(* A path is a sequence of units; a unit is a character, or Invalid, a     *)
(* piece of the OS string that is not valid Unicode.  An archive key is a  *)
(* String: a sequence of characters.  The archive is the sequence of its   *)
(* entries in the order entries() enumerates them.                         *)
(***************************************************************************)
EXTENDS Integers, Sequences, FiniteSets, TLC

VARIABLES
    archive,    \* VachAssetIo.archive: the entries <<[id, data], ...>>
    archive0,   \* the archive as VachAssetIo::new received it (history)
    call        \* per caller: the operation it issued last, and its result

vars == <<archive, archive0, call>>

----------------------------------------------------------------------------
(* Bounds *)

\* longest path a caller passes, in units
MaxLen == 2
\* size of an archive: the total length of its keys
MaxArchive == 3

----------------------------------------------------------------------------
(* Paths, keys, payloads *)

\* U+FFFD REPLACEMENT CHARACTER, a character like any other
Replacement == "R"
\* a unit of a path that is not valid Unicode
Invalid == "X"

KeyChars == {"a", Replacement}
PathUnits == KeyChars \cup {Invalid}

\* the bytes stored for a key: its own encoding, so no two entries of an
\* archive hold the same payload
Payload(id) == [i \in 1..Len(id) |-> IF id[i] = "a" THEN 97 ELSE 253]

SeqsUpTo(S, n) == UNION {[1..k -> S] : k \in 0..n}

Paths == SeqsUpTo(PathUnits, MaxLen)
Keys == SeqsUpTo(KeyChars, MaxArchive) \ {<<>>}

RECURSIVE TotalLen(_)
TotalLen(ks) == IF ks = <<>> THEN 0 ELSE Len(Head(ks)) + TotalLen(Tail(ks))

\* the key lists an archive can hold: its registry maps each id to one entry
KeyLists ==
    {ks \in SeqsUpTo(Keys, MaxArchive) :
        /\ \A i, j \in 1..Len(ks) : i # j => ks[i] # ks[j]
        /\ TotalLen(ks) <= MaxArchive}

Archives ==
    {[i \in 1..Len(ks) |-> [id |-> ks[i], data |-> Payload(ks[i])]] : ks \in KeyLists}

----------------------------------------------------------------------------
(* std: Path::to_string_lossy, str::starts_with, PathBuf::from *)

\* every invalid unit becomes U+FFFD, the rest is kept
to_string_lossy(path) ==
    [i \in 1..Len(path) |-> IF path[i] = Invalid THEN Replacement ELSE path[i]]

starts_with(id, prefix) ==
    /\ Len(prefix) <= Len(id)
    /\ \A i \in 1..Len(prefix) : id[i] = prefix[i]

\* a String is a path as it stands
PathBuf_from(id) == id

----------------------------------------------------------------------------
(* The archive capability the adapter calls: entries, fetch_entry, fetch *)

None == [tag |-> "None"]

entries(a) == a

fetch_entry(a, id) ==
    IF \E i \in 1..Len(a) : a[i].id = id
    THEN [tag |-> "Some", entry |-> a[CHOOSE i \in 1..Len(a) : a[i].id = id]]
    ELSE None

\* what reading and decoding a stored entry can come to
IoErrors == {[kind |-> "UnexpectedEof", msg |-> "failed to fill whole buffer"]}
OtherErrors == {"DecompressionError", "NoKeypairError"}
Faults ==
    {[variant |-> "NoFault"]}
    \cup {[variant |-> "IOError", err |-> e] : e \in IoErrors}
    \cup {[variant |-> v] : v \in OtherErrors}

\* InternalError's Display
to_string(err) == <<"vach", err.variant>>

\* the faults a fetch of `id` can meet: the source is read only for an entry
\* the registry holds
faults_of(a, id) ==
    IF fetch_entry(a, id) = None THEN {[variant |-> "NoFault"]} ELSE Faults

\* Archive::fetch: a key the registry lacks is a MissingResourceError;
\* otherwise the entry is read and decoded, which comes to `fault`
fetch(a, id, fault) ==
    LET e == fetch_entry(a, id) IN
    IF e = None
    THEN [tag |-> "Err", err |-> [variant |-> "MissingResourceError", id |-> id]]
    ELSE IF fault.variant = "NoFault"
    THEN [tag |-> "Ok", res |-> [data |-> e.entry.data, flags |-> 0, authenticated |-> FALSE]]
    ELSE [tag |-> "Err", err |-> fault]

----------------------------------------------------------------------------
(* impl AssetIo for VachAssetIo: what each operation returns *)

AssetIoError_Io(e) == [tag |-> "Io", err |-> e]
AssetIoError_NotFound(p) == [tag |-> "NotFound", path |-> p]
AssetIoError_PathWatchError(p) == [tag |-> "PathWatchError", path |-> p]
Ok(v) == [tag |-> "Ok", val |-> v]

\* load_path looking its entry up the way the directory test does: the first
\* entry whose key starts with the path
load_path_prefix(a, path, fault) ==
    LET str == to_string_lossy(path)
        hits == {i \in 1..Len(a) : starts_with(a[i].id, str)}
    IN  IF hits = {}
        THEN AssetIoError_NotFound(path)
        ELSE LET i == CHOOSE i \in hits : \A j \in hits : i <= j
                 resource == fetch(a, a[i].id, fault)
             IN  IF resource.tag = "Ok"
                 THEN Ok(resource.res.data)
                 ELSE IF resource.err.variant = "IOError"
                 THEN AssetIoError_Io(resource.err.err)
                 ELSE AssetIoError_Io([kind |-> "Other", msg |-> to_string(resource.err)])

\* load_path reporting the missing key instead of the requested path
load_path_key_in_error(a, path, fault) ==
    LET str == to_string_lossy(path)
        resource == fetch(a, str, fault)
    IN  IF resource.tag = "Ok"
        THEN Ok(resource.res.data)
        ELSE IF resource.err.variant = "IOError"
        THEN AssetIoError_Io(resource.err.err)
        ELSE IF resource.err.variant = "MissingResourceError"
        THEN AssetIoError_NotFound(resource.err.id)
        ELSE AssetIoError_Io([kind |-> "Other", msg |-> to_string(resource.err)])

\* load_path with the catch-all arm reporting NotFound
load_path_catch_all_not_found(a, path, fault) ==
    LET str == to_string_lossy(path)
        resource == fetch(a, str, fault)
    IN  IF resource.tag = "Ok"
        THEN Ok(resource.res.data)
        ELSE IF resource.err.variant = "IOError"
        THEN AssetIoError_Io(resource.err.err)
        ELSE AssetIoError_NotFound(path)

\* the async block of load_path
load_path(a, path, fault) ==
    LET str == to_string_lossy(path)
        resource == fetch(a, str, fault)
    IN  IF resource.tag = "Ok"
        THEN Ok(resource.res.data)
        ELSE IF resource.err.variant = "IOError"
        THEN AssetIoError_Io(resource.err.err)
        ELSE IF resource.err.variant = "MissingResourceError"
        THEN AssetIoError_NotFound(path)
        ELSE AssetIoError_Io([kind |-> "Other", msg |-> to_string(resource.err)])

RECURSIVE filter_map_rev(_, _)
\* the listing collected back to front
filter_map_rev(es, prefix) ==
    IF es = <<>> THEN <<>>
    ELSE LET id == Head(es).id
             rest == filter_map_rev(Tail(es), prefix)
         IN  IF starts_with(id, prefix) THEN rest \o <<PathBuf_from(id)>> ELSE rest

RECURSIVE filter_map_children(_, _)
\* the listing cut down to immediate children: each key kept up to one unit
\* past the prefix
filter_map_children(es, prefix) ==
    IF es = <<>> THEN <<>>
    ELSE LET id == Head(es).id
             rest == filter_map_children(Tail(es), prefix)
             child == SubSeq(id, 1, IF Len(id) > Len(prefix) THEN Len(prefix) + 1 ELSE Len(id))
         IN  IF starts_with(id, prefix) THEN <<PathBuf_from(child)>> \o rest ELSE rest

RECURSIVE filter_map(_, _)
\* entries().into_iter().map(|e| e.0).filter(starts_with).map(PathBuf::from)
filter_map(es, prefix) ==
    IF es = <<>> THEN <<>>
    ELSE LET id == Head(es).id
             rest == filter_map(Tail(es), prefix)
         IN  IF starts_with(id, prefix) THEN <<PathBuf_from(id)>> \o rest ELSE rest

read_directory(a, path) ==
    Ok(filter_map(entries(a), to_string_lossy(path)))

\* get_metadata asking the directory question first
get_metadata_dir_first(a, path) ==
    IF \E i \in 1..Len(entries(a)) :
            starts_with(entries(a)[i].id, to_string_lossy(path))
    THEN Ok("Directory")
    ELSE IF fetch_entry(a, to_string_lossy(path)) # None
    THEN Ok("File")
    ELSE AssetIoError_NotFound(path)

\* get_metadata looking the entry up by the path's units as they are, with
\* only the directory test converting
get_metadata_raw_lookup(a, path) ==
    IF fetch_entry(a, path) # None
    THEN Ok("File")
    ELSE IF \E i \in 1..Len(entries(a)) :
                starts_with(entries(a)[i].id, to_string_lossy(path))
    THEN Ok("Directory")
    ELSE AssetIoError_NotFound(path)

get_metadata(a, path) ==
    LET str == to_string_lossy(path)
        entry == fetch_entry(a, str)
    IN  IF entry # None
        THEN Ok("File")
        ELSE IF \E i \in 1..Len(entries(a)) :
                    starts_with(entries(a)[i].id, to_string_lossy(path))
        THEN Ok("Directory")
        ELSE AssetIoError_NotFound(path)

\* watching accepted and ignored
watch_path_for_changes_ok(path) == Ok(<<>>)

watch_path_for_changes(path) == AssetIoError_PathWatchError(path)

WatchAllMessage == <<"<Vach Archives are read only, so there is no need to watch for changes. Save yourself the milliseconds>">>

watch_for_changes == AssetIoError_PathWatchError(WatchAllMessage)

----------------------------------------------------------------------------
(* struct VachAssetIo: #[derive(Debug)], the archive held by value *)

derives == {"Debug"}

\* a value of the type can be duplicated only through a Clone implementation
Cloneable == "Clone" \in derives

----------------------------------------------------------------------------
(* The callers of the adapter.  Every operation takes &self. *)

Idle == [op |-> "none", pc |-> "done"]

\* load_path itself: the future is made and boxed, nothing has run yet
LoadPath(c, p) ==
    /\ call[c].pc = "done"
    /\ call' = [call EXCEPT ![c] = [op |-> "load_path", pc |-> "pending", path |-> p]]
    /\ UNCHANGED <<archive, archive0>>

\* a load that waits while another load is in flight
Poll_exclusive(c) ==
    /\ call[c].pc = "pending"
    /\ \A d \in DOMAIN call : d # c => call[d].pc # "pending"
    /\ \E fault \in faults_of(archive, to_string_lossy(call[c].path)) :
        call' = [call EXCEPT ![c] =
                    [op |-> "load_path", pc |-> "done", path |-> call[c].path,
                     fault |-> fault, fetches |-> 1,
                     res |-> load_path(archive, call[c].path, fault)]]
    /\ UNCHANGED <<archive, archive0>>

\* a load that takes the entry out of the archive as it returns it
Poll_take(c) ==
    /\ call[c].pc = "pending"
    /\ \E fault \in faults_of(archive, to_string_lossy(call[c].path)) :
        call' = [call EXCEPT ![c] =
                    [op |-> "load_path", pc |-> "done", path |-> call[c].path,
                     fault |-> fault, fetches |-> 1,
                     res |-> load_path(archive, call[c].path, fault)]]
    /\ LET keep(e) == e.id # to_string_lossy(call[c].path)
       IN  archive' = SelectSeq(archive, keep)
    /\ UNCHANGED archive0

\* the future is polled: the async block runs to its end in one piece
Poll(c) ==
    /\ call[c].pc = "pending"
    /\ \E fault \in faults_of(archive, to_string_lossy(call[c].path)) :
        call' = [call EXCEPT ![c] =
                    [op |-> "load_path", pc |-> "done", path |-> call[c].path,
                     fault |-> fault, fetches |-> 1,
                     res |-> load_path(archive, call[c].path, fault)]]
    /\ UNCHANGED <<archive, archive0>>

ReadDirectory(c, p) ==
    /\ call[c].pc = "done"
    /\ call' = [call EXCEPT ![c] =
                    [op |-> "read_directory", pc |-> "done", path |-> p,
                     res |-> read_directory(archive, p)]]
    /\ UNCHANGED <<archive, archive0>>

GetMetadata(c, p) ==
    /\ call[c].pc = "done"
    /\ call' = [call EXCEPT ![c] =
                    [op |-> "get_metadata", pc |-> "done", path |-> p,
                     res |-> get_metadata(archive, p)]]
    /\ UNCHANGED <<archive, archive0>>

WatchPathForChanges(c, p) ==
    /\ call[c].pc = "done"
    /\ call' = [call EXCEPT ![c] =
                    [op |-> "watch_path_for_changes", pc |-> "done", path |-> p,
                     res |-> watch_path_for_changes(p)]]
    /\ UNCHANGED <<archive, archive0>>

WatchForChanges(c) ==
    /\ call[c].pc = "done"
    /\ call[c].op # "watch_for_changes"
    /\ call' = [call EXCEPT ![c] =
                    [op |-> "watch_for_changes", pc |-> "done",
                     res |-> watch_for_changes]]
    /\ UNCHANGED <<archive, archive0>>

----------------------------------------------------------------------------
(* Specifications *)

\* VachAssetIo::new(archive): one caller using every operation
Callers == {1}

Init ==
    /\ archive \in Archives
    /\ archive0 = archive
    /\ call = [c \in Callers |-> Idle]

Next ==
    \E c \in Callers :
        \/ \E p \in Paths : LoadPath(c, p)
        \/ Poll(c)
        \/ \E p \in Paths : ReadDirectory(c, p)
        \/ \E p \in Paths : GetMetadata(c, p)
        \/ \E p \in Paths : WatchPathForChanges(c, p)
        \/ WatchForChanges(c)

Spec == Init /\ [][Next]_vars

\* two worker threads, each issuing one load through the same &VachAssetIo
Loaders == {1, 2}

InitConc ==
    /\ archive \in Archives
    /\ archive0 = archive
    /\ call = [c \in Loaders |-> Idle]

NextConc ==
    \E c \in Loaders :
        \/ call[c] = Idle /\ \E p \in Paths : LoadPath(c, p)
        \/ Poll(c)

SpecConc == InitConc /\ [][NextConc]_vars

----------------------------------------------------------------------------
(* Vocabulary of the properties *)

\* the key a path stands for (spec 3, "Logical path"): its string conversion
KeyOf(p) == to_string_lossy(p)

Ids(a) == [i \in 1..Len(a) |-> a[i].id]
HasKey(a, k) == \E i \in 1..Len(a) : a[i].id = k
IsPrefix(s, k) == Len(s) <= Len(k) /\ SubSeq(k, 1, Len(s)) = s
HasPrefixed(a, s) == \E i \in 1..Len(a) : IsPrefix(s, a[i].id)
StoredFor(a, k) == a[CHOOSE i \in 1..Len(a) : a[i].id = k].data

Finished(c, op) == call[c].op = op /\ call[c].pc = "done"
Who == DOMAIN call

----------------------------------------------------------------------------
(* C1 *)

\* C1: whenever get_metadata or load has been called with a path that is
\* exactly the key of an entry, get_metadata returned File and load, its
\* fetch not failing, returned exactly the payload stored for that key.
C1_ExactKey ==
    \A c \in Who :
        /\ (Finished(c, "get_metadata") /\ HasKey(archive, call[c].path))
                => call[c].res = Ok("File")
        /\ (Finished(c, "load_path") /\ HasKey(archive, call[c].path)
                /\ call[c].fault.variant = "NoFault")
                => call[c].res = Ok(StoredFor(archive, call[c].path))

\* a load of a key that has another key as a proper extension has returned
\* its own payload
C1_Witness ==
    \E c \in Who :
        /\ Finished(c, "load_path")
        /\ HasKey(archive, call[c].path)
        /\ \E i \in 1..Len(archive) :
                archive[i].id # call[c].path /\ IsPrefix(call[c].path, archive[i].id)
        /\ call[c].res = Ok(StoredFor(archive, call[c].path))

----------------------------------------------------------------------------
(* C2 *)

\* C2: get_metadata(p) yields exactly one of File, Directory, NotFound(p):
\* File iff some key equals p's string; Directory iff none does and some key
\* has p's string as a prefix; NotFound otherwise.  An exact key is a File
\* also when other keys extend it.
C2_Classification ==
    \A c \in Who : Finished(c, "get_metadata") =>
        LET p == call[c].path
            r == call[c].res
            exact == HasKey(archive, KeyOf(p))
            under == HasPrefixed(archive, KeyOf(p))
        IN  /\ r \in {Ok("File"), Ok("Directory"), AssetIoError_NotFound(p)}
            /\ (r = Ok("File")) <=> exact
            /\ (r = Ok("Directory")) <=> (~exact /\ under)
            /\ (r = AssetIoError_NotFound(p)) <=> (~exact /\ ~under)

\* keys "a" and "a..." both stored, get_metadata("a") has answered File
C2_Witness ==
    \E c \in Who :
        /\ Finished(c, "get_metadata")
        /\ HasKey(archive, call[c].path)
        /\ \E i \in 1..Len(archive) :
                archive[i].id # call[c].path /\ IsPrefix(call[c].path, archive[i].id)
        /\ call[c].res = Ok("File")

----------------------------------------------------------------------------
(* C3 *)

\* C3: read_directory(p) never fails and returns exactly the keys that start
\* with p's string, each once, in the order the archive enumerates them;
\* everything for the empty prefix, nothing for a prefix matching nothing.
C3_Listing ==
    \A c \in Who : Finished(c, "read_directory") =>
        LET p == call[c].path
            r == call[c].res
            Under(k) == IsPrefix(KeyOf(p), k)
        IN  /\ r.tag = "Ok"
            /\ r.val = SelectSeq(Ids(archive), Under)
            /\ (p = <<>> => r.val = Ids(archive))
            /\ (~HasPrefixed(archive, KeyOf(p)) => r.val = <<>>)

\* a listing under a non-empty prefix of two entries the archive enumerates
\* longest first, returned in that order
C3_Witness ==
    \E c \in Who :
        /\ Finished(c, "read_directory")
        /\ call[c].path # <<>>
        /\ Len(call[c].res.val) = 2
        /\ Len(call[c].res.val[1]) > Len(call[c].res.val[2])

----------------------------------------------------------------------------
(* C4 *)

\* C4: for a path whose string is no key and no prefix of a key,
\* get_metadata and load both fail NotFound carrying the path as requested.
C4_NotFound ==
    \A c \in Who :
        (/\ Finished(c, "get_metadata") \/ Finished(c, "load_path")
         /\ ~HasKey(archive, KeyOf(call[c].path))
         /\ ~HasPrefixed(archive, KeyOf(call[c].path)))
            => call[c].res = AssetIoError_NotFound(call[c].path)

\* a load of a path that is not valid Unicode has failed NotFound, carrying
\* the path itself
C4_Witness ==
    \E c \in Who :
        /\ Finished(c, "load_path")
        /\ archive # <<>>
        /\ \E i \in 1..Len(call[c].path) : call[c].path[i] = Invalid
        /\ call[c].res = AssetIoError_NotFound(call[c].path)

----------------------------------------------------------------------------
(* C5 *)

----------------------------------------------------------------------------
(* C6 *)

\* C6: a load whose fetch failed made one fetch and returned the failure
\* translated by kind: an I/O failure is returned as it is; a missing key is
\* NotFound with the requested path; any other failure is an I/O failure of
\* kind Other with the cause's text.  It returned no bytes.
C6_ErrorMapping ==
    \A c \in Who : Finished(c, "load_path") =>
        LET p == call[c].path
            f == call[c].fault
            r == call[c].res
            present == HasKey(archive, KeyOf(p))
        IN  /\ call[c].fetches = 1
            /\ (present /\ f.variant = "IOError") => r = AssetIoError_Io(f.err)
            /\ ~present => r = AssetIoError_NotFound(p)
            /\ (present /\ f.variant \in OtherErrors)
                    => r = AssetIoError_Io([kind |-> "Other", msg |-> to_string(f)])
            /\ (~present \/ f.variant # "NoFault") => r.tag # "Ok"

\* a load whose fetch failed to decode has returned an I/O failure of kind Other
C6_Witness ==
    \E c \in Who :
        /\ Finished(c, "load_path")
        /\ call[c].fault.variant \in OtherErrors
        /\ call[c].res.tag = "Io"
        /\ call[c].res.err.kind = "Other"

----------------------------------------------------------------------------
(* C7 *)

\* C7: watch_path(p) has failed with PathWatchError carrying p, and
\* watch_all with PathWatchError carrying the fixed message, whatever the
\* archive holds and whatever was called before.
C7_WatchUnsupported ==
    \A c \in Who :
        /\ Finished(c, "watch_path_for_changes")
                => call[c].res = [tag |-> "PathWatchError", path |-> call[c].path]
        /\ Finished(c, "watch_for_changes")
                => call[c].res = [tag |-> "PathWatchError", path |-> WatchAllMessage]

\* watch_path of a stored key has failed
C7_Witness ==
    \E c \in Who :
        /\ Finished(c, "watch_path_for_changes")
        /\ HasKey(archive, call[c].path)
        /\ call[c].res.tag = "PathWatchError"

----------------------------------------------------------------------------
(* C8 *)

\* what the operation of call record r returns on archive a
Answer(a, r) ==
    CASE r.op = "load_path" -> load_path(a, r.path, r.fault)
      [] r.op = "read_directory" -> read_directory(a, r.path)
      [] r.op = "get_metadata" -> get_metadata(a, r.path)
      [] r.op = "watch_path_for_changes" -> watch_path_for_changes(r.path)
      [] r.op = "watch_for_changes" -> watch_for_changes

\* C8: the archive is at all times the archive the adapter was constructed
\* with, and every operation, after whatever came before it, has returned
\* what it returns on the archive as constructed (for load: under the same
\* outcome of the archive's fetch).
C8_ReadOnly ==
    /\ archive = archive0
    /\ \A c \in Who :
        (call[c].op # "none" /\ call[c].pc = "done")
            => call[c].res = Answer(archive0, call[c])

\* a load has returned bytes
C8_Witness ==
    \E c \in Who :
        /\ Finished(c, "load_path")
        /\ call[c].res.tag = "Ok"
        /\ Len(archive) = 2

----------------------------------------------------------------------------
(* C9 *)

\* C9: every path read_directory returned is a stored key: get_metadata
\* classifies it File, and load of it does not fail NotFound.
C9_ListedAreFiles ==
    \A c \in Who : Finished(c, "read_directory") =>
        \A n \in 1..Len(call[c].res.val) :
            LET q == call[c].res.val[n] IN
            /\ HasKey(archive, q)
            /\ get_metadata(archive, q) = Ok("File")
            /\ \A f \in Faults : load_path(archive, q, f).tag # "NotFound"

\* a listing under a directory: the prefix is no key, an entry came back
C9_Witness ==
    \E c \in Who :
        /\ Finished(c, "read_directory")
        /\ call[c].path # <<>>
        /\ ~HasKey(archive, KeyOf(call[c].path))
        /\ Len(call[c].res.val) > 0

----------------------------------------------------------------------------
(* C10 *)

\* C10: a load of a path that get_metadata classifies as Directory has
\* failed NotFound carrying the path; it returned no bytes.
C10_DirectoryLoad ==
    \A c \in Who :
        (Finished(c, "load_path") /\ get_metadata(archive, call[c].path) = Ok("Directory"))
            => /\ ~HasKey(archive, KeyOf(call[c].path))
               /\ HasPrefixed(archive, KeyOf(call[c].path))
               /\ call[c].res = AssetIoError_NotFound(call[c].path)

\* a load of a proper prefix of a stored key has failed NotFound
C10_Witness ==
    \E c \in Who :
        /\ Finished(c, "load_path")
        /\ call[c].path # <<>>
        /\ ~HasKey(archive, KeyOf(call[c].path))
        /\ HasPrefixed(archive, KeyOf(call[c].path))
        /\ call[c].res.tag = "NotFound"

=============================================================================
